---- MODULE Spec2Model ----
(***************************************************************************)
(* Wake-cycle state machine of the M5PaperS3 image display firmware.       *)
(* One wake cycle is setup(): WiFi bring-up, catalog query, comparison     *)
(* with the RTC-retained filename, download, render, commit, deep sleep.   *)
(* Strings are sequences of byte codes, so that comparisons, suffix tests  *)
(* and the bounded copy into the RTC buffer are computed as the code does. *)
(***************************************************************************)
EXTENDS Integers, Sequences, FiniteSets, TLC

----------------------------------------------------------------------------
(* Bounds of the model *)

\* longest catalog listing enumerated for the selection function
MaxListing == 4
\* most data chunks the transport hands over during one download
MaxReads == 3
\* consecutive failed cycles counted before the count saturates
MaxFailRun == 2

----------------------------------------------------------------------------
(* Program constants *)

\* sizeof(lastImageFilename)
LastImageFilenameSize == 64
\* attempts < 30 in connectWiFi
WiFiAttemptLimit == 30
\* 1024 * 1024 in downloadImage
MaxImageBytes == 1048576
\* width of size_t on the ESP32-S3 target
SizeTBits == 32

----------------------------------------------------------------------------
(* File names, as byte sequences *)

\* ".jpg"
DotJpg == <<46, 106, 112, 103>>
\* ".jpeg"
DotJpeg == <<46, 106, 112, 101, 103>>
\* "img_A.jpg"
ImgA == <<105, 109, 103, 95, 65, 46, 106, 112, 103>>
\* "img_B.jpg"
ImgB == <<105, 109, 103, 95, 66, 46, 106, 112, 103>>
\* "20240101_0000.jpg"
Name0101 == <<50, 48, 50, 52, 48, 49, 48, 49, 95, 48, 48, 48, 48, 46, 106, 112, 103>>
\* "20240229_1200.jpeg"
Name0229 == <<50, 48, 50, 52, 48, 50, 50, 57, 95, 49, 50, 48, 48, 46, 106, 112, 101, 103>>
\* "notes.txt"
NameNotes == <<110, 111, 116, 101, 115, 46, 116, 120, 116>>
\* "20231231_2359.jpg"
Name1231 == <<50, 48, 50, 51, 49, 50, 51, 49, 95, 50, 51, 53, 57, 46, 106, 112, 103>>
\* "X.JPG"
NameUpper == <<88, 46, 74, 80, 71>>
\* "X.Jpeg"
NameMixed == <<88, 46, 74, 112, 101, 103>>
\* "zdir.jpg", used as the name of a directory entry
NameDir == <<122, 100, 105, 114, 46, 106, 112, 103>>
\* "zz.jpg", used as the name of an entry without a type
NameNoType == <<122, 122, 46, 106, 112, 103>>
\* 59 times "y" then ".jpg": 63 characters, the longest name the buffer holds
Name63 == [i \in 1..59 |-> 121] \o DotJpg
\* 60 times "z" then ".jpg": 64 characters, one more than the buffer holds
Name64 == [i \in 1..60 |-> 122] \o DotJpg

\* the empty String / the zeroed RTC buffer
EmptyStr == <<>>
\* a null pointer: item["type"] absent, malloc failed, downloadImage failed
NullPtr == "nullptr"
\* a null item["name"]; no C string holds the byte 0, so no name equals it
NullName == <<0>>

----------------------------------------------------------------------------
(* String primitives used by the firmware *)

Min(a, b) == IF a <= b THEN a ELSE b

\* the byte of C string s at position k, counting from 1; the terminating
\* zero at and after its end
ByteAt(s, k) == IF k <= Len(s) THEN s[k] ELSE 0

\* strcmp(a, b): the difference of the bytes (as unsigned char) at the first
\* position where the strings differ, zero when there is none
StrCmp(a, b) ==
    LET n == Min(Len(a), Len(b)) + 1
        differ == { k \in 1..n : ByteAt(a, k) # ByteAt(b, k) }
    IN  IF differ = {} THEN 0
        ELSE LET first == CHOOSE k \in differ : \A j \in differ : k <= j
             IN  ByteAt(a, first) - ByteAt(b, first)

\* operator> with the comparison turned round
StringGreater_Mut(a, b) == StrCmp(a, b) < 0

\* String::operator>  (compareTo(rhs) > 0)
StringGreater(a, b) == StrCmp(a, b) > 0

\* a byte with ASCII upper-case letters folded to lower case
ToLower(c) == IF c \in 65..90 THEN c + 32 ELSE c
LowerCase(s) == [i \in DOMAIN s |-> ToLower(s[i])]

\* endsWith ignoring case
EndsWith_Mut(s, suffix) ==
    /\ Len(s) >= Len(suffix)
    /\ LowerCase(SubSeq(s, Len(s) - Len(suffix) + 1, Len(s))) = LowerCase(suffix)

\* String::endsWith(suffix): exact, case-sensitive byte comparison of the tail
EndsWith(s, suffix) ==
    /\ Len(s) >= Len(suffix)
    /\ SubSeq(s, Len(s) - Len(suffix) + 1, Len(s)) = suffix

\* the copy with the whole buffer size as its count and no terminator stored
StrNCpy_Mut(src, n) == SubSeq(src, 1, Min(Len(src), n + 1))

\* strncpy(dst, src, n) into a zeroed buffer followed by dst[n] = 0:
\* the C string left in the buffer
StrNCpy(src, n) == SubSeq(src, 1, Min(Len(src), n))

\* A size_t is 32 bits wide, more than the model checker's integers hold, so
\* its value hi * 2^16 + lo is kept as two 16-bit halves.
HalfBits == SizeTBits \div 2
Half == 2 ^ HalfBits

\* an int converted to size_t (value modulo 2^32)
ToSizeT(v) == [hi |-> (v \div Half) % Half, lo |-> v % Half]

\* a < b, a <= b on size_t
SizeLess(a, b) == a.hi < b.hi \/ (a.hi = b.hi /\ a.lo < b.lo)
SizeLeq(a, b) == a = b \/ SizeLess(a, b)

\* a + b and a - b on size_t, wrapping modulo 2^32
SizeAdd(a, b) ==
    LET lo == a.lo + b.lo
    IN  [hi |-> (a.hi + b.hi + (lo \div Half)) % Half, lo |-> lo % Half]
SizeSub(a, b) ==
    LET lo == a.lo - b.lo
    IN  [hi |-> (a.hi - b.hi + (lo \div Half)) % Half, lo |-> lo % Half]

\* min(a, b) on size_t
SizeMin(a, b) == IF SizeLess(b, a) THEN b ELSE a

----------------------------------------------------------------------------
(* Remote catalog *)

\* HTTP_CODE_OK
HttpCodeOk == 200
\* status codes a request is answered with: OK, not found, transport error
HttpCodes == {HttpCodeOk, 404, -1}

\* one element of the JSON array: item["name"], item["type"]
Entry(name, type) == [name |-> name, type |-> type]

\* the entries listings are built from
EntryUniverse ==
    { Entry(Name0101, "file"), Entry(Name0229, "file"), Entry(NameNotes, "file"),
      Entry(Name1231, "file"), Entry(NameUpper, "file"), Entry(NameMixed, "file"),
      Entry(NameDir, "dir"), Entry(NameNoType, NullPtr), Entry(NullName, "file") }

\* sequences over S of length at most n
SeqUpTo(S, n) == UNION { [1..k -> S] : k \in 0..n }

\* a catalog response: status code, whether the payload parses, whether the
\* parsed document is an array, and the array's elements
Response(code, parses, isArray, items) ==
    [code |-> code, parses |-> parses, isArray |-> isArray, items |-> items]

OkListing(items) == Response(HttpCodeOk, TRUE, TRUE, items)

\* the loop body without the check of item["type"]
ScanItem_Mut(item, latest) ==
    IF item.name # NullName
    THEN IF EndsWith(item.name, DotJpg) \/ EndsWith(item.name, DotJpeg)
         THEN IF StringGreater(item.name, latest) THEN item.name ELSE latest
         ELSE latest
    ELSE latest

\* the loop body of getLatestImageFilename for one item
ScanItem(item, latest) ==
    IF item.type # NullPtr /\ item.type = "file" /\ item.name # NullName
    THEN IF EndsWith(item.name, DotJpg) \/ EndsWith(item.name, DotJpeg)
         THEN IF StringGreater(item.name, latest) THEN item.name ELSE latest
         ELSE latest
    ELSE latest

\* for (JsonObject item : doc.as<JsonArray>()), left to right
RECURSIVE ScanListing(_, _)
ScanListing(items, latest) ==
    IF items = <<>> THEN latest
    ELSE ScanListing(Tail(items), ScanItem(Head(items), latest))

\* String getLatestImageFilename()
GetLatestImageFilename(resp) ==
    IF resp.code # HttpCodeOk THEN EmptyStr
    ELSE IF ~resp.parses THEN EmptyStr
    ELSE ScanListing(IF resp.isArray THEN resp.items ELSE <<>>, EmptyStr)

\* the responses enumerated for the selection function
SelectResponses ==
    { OkListing(l) : l \in SeqUpTo(EntryUniverse, MaxListing) }
    \cup { Response(404, FALSE, FALSE, <<>>),
           Response(HttpCodeOk, FALSE, FALSE, <<>>),
           Response(HttpCodeOk, TRUE, FALSE, <<>>) }

\* the responses a wake cycle can receive
CycleResponses ==
    { OkListing(<<>>),
      OkListing(<<Entry(ImgA, "file")>>),
      OkListing(<<Entry(ImgA, "file"), Entry(ImgB, "file"), Entry(NameNotes, "file")>>),
      OkListing(<<Entry(Name63, "file")>>),
      OkListing(<<Entry(Name64, "file"), Entry(ImgA, "file")>>),
      OkListing(<<Entry(NameUpper, "file"), Entry(NameDir, "dir")>>),
      Response(404, FALSE, FALSE, <<>>),
      Response(HttpCodeOk, FALSE, FALSE, <<>>),
      Response(HttpCodeOk, TRUE, FALSE, <<>>) }

----------------------------------------------------------------------------
(* State *)

VARIABLES
    lastImageFilename,  \* RTC_DATA_ATTR char lastImageFilename[64], as a C string
    hasValidImage,      \* RTC_DATA_ATTR bool hasValidImage
    panel,              \* what the e-paper panel physically shows
    canvas,             \* M5.Display's draw buffer, not yet refreshed to the panel
    refreshes,          \* physical panel refreshes performed in this wake cycle
    pc,                 \* position of setup()
    attempts,           \* connectWiFi: int attempts
    catalog,            \* the catalog response of this cycle
    latestFilename,     \* setup: String latestFilename
    declSize,           \* downloadImage: <<the int returned by http.getSize()>>
    imageSize,          \* downloadImage: *imageSize (size_t)
    bytesRead,          \* downloadImage: size_t bytesRead
    imageData,          \* the pointer downloadImage returns / setup holds
    heap,               \* image buffers currently allocated
    reads,              \* chunks the transport has handed over in this download
    mallocCalls,        \* malloc calls in this cycle
    frees,              \* free calls in this cycle
    httpConnected,      \* downloadImage: what http.connected() returns
    fetchCalls,         \* downloadImage calls in this cycle
    renderCalls,        \* displayImage calls in this cycle
    outcome,            \* how this cycle ended
    startName,          \* lastImageFilename when this cycle woke
    startValid,         \* hasValidImage when this cycle woke
    startPanel,         \* panel when this cycle woke
    seqName,            \* lastImageFilename before the current run of failed cycles
    seqValid,           \* hasValidImage before the current run of failed cycles
    failRun,            \* consecutive failed cycles before this one (saturating)
    prevCommitted,      \* the filename the previous cycle rendered and committed,
                        \* empty if it committed none
    commits,            \* commits of the retained state begun in this cycle
    radio,              \* the WiFi radio: "sta" after WiFi.begin, "off" when stopped
    wakeSources,        \* the wake sources armed for the next sleep
    sleepLog,           \* the steps enterDeepSleep has performed, in order
    lastImageHash,      \* main.cpp: RTC_DATA_ATTR char lastImageHash[65]
    currentHash,        \* main.cpp setup: char currentHash[65]
    content,            \* main.cpp: the bytes the image URL delivered into the buffer
    startHash           \* main.cpp: lastImageHash when this cycle woke

rtc == <<lastImageFilename, hasValidImage>>
display == <<panel, canvas, refreshes>>
dl == <<declSize, imageSize, bytesRead, imageData, heap, reads, mallocCalls, frees,
        httpConnected>>
history == <<startName, startValid, startPanel, seqName, seqValid, failRun,
            prevCommitted>>
power == <<radio, wakeSources, sleepLog>>
hashfw == <<lastImageHash, currentHash, content, startHash>>
vars == <<rtc, display, pc, attempts, catalog, latestFilename, dl, fetchCalls,
          renderCalls, outcome, history, commits, power, hashfw>>

\* getSize() not called yet
NoSize == <<>>
\* no catalog request made yet
NoCatalog == Response(0, FALSE, FALSE, <<>>)
\* the pointer to the allocated image buffer
Buffer == "buffer"

\* no hash computed or stored: the zeroed buffer
NoHash == <<>>
\* no image bytes received
NoContent == "none"

\* panel and canvas contents
PowerOn == <<"poweron">>
Cleared == <<"cleared">>
PartialDraw == <<"partial">>
Image(name) == <<"image", name>>
ErrorScreen(message) == <<"error", "text", message>>

\* cycle outcomes that are failures
Failures == {"network", "catalog", "fetch", "render"}

\* RAM after reset or wake: everything but the RTC variables and the panel
FreshRam ==
    /\ canvas = PowerOn
    /\ refreshes = 0
    /\ attempts = 0
    /\ catalog = NoCatalog
    /\ latestFilename = EmptyStr
    /\ declSize = NoSize
    /\ imageSize = ToSizeT(0)
    /\ bytesRead = ToSizeT(0)
    /\ httpConnected = FALSE
    /\ imageData = NullPtr
    /\ heap = 0
    /\ reads = 0
    /\ mallocCalls = 0
    /\ frees = 0
    /\ fetchCalls = 0
    /\ renderCalls = 0
    /\ outcome = "none"
    /\ commits = 0
    /\ radio = "sta"
    /\ wakeSources = {}
    /\ sleepLog = <<>>
    /\ currentHash = NoHash
    /\ content = NoContent

\* first power-on: zeroed RTC variables, panel in its power-on state
Init ==
    /\ lastImageFilename = EmptyStr
    /\ hasValidImage = FALSE
    /\ panel = PowerOn
    /\ lastImageHash = NoHash
    /\ startHash = NoHash
    /\ FreshRam
    /\ pc = "connectWiFi"
    /\ startName = EmptyStr
    /\ startValid = FALSE
    /\ startPanel = PowerOn
    /\ seqName = EmptyStr
    /\ seqValid = FALSE
    /\ failRun = 0
    /\ prevCommitted = EmptyStr

----------------------------------------------------------------------------
(* Wake cycle: setup() *)

\* showTemporaryError drawing the error screen whatever hasValidImage is
ShowTemporaryError_Mut(message) ==
    /\ canvas' = ErrorScreen(message)
    /\ panel' = ErrorScreen(message)
    /\ refreshes' = refreshes + 1

\* showTemporaryError without its call of display()
ShowTemporaryError_NoRefresh(message) ==
    IF hasValidImage
    THEN UNCHANGED display
    ELSE /\ canvas' = ErrorScreen(message)
         /\ UNCHANGED <<panel, refreshes>>

\* void showTemporaryError(const char* message)
ShowTemporaryError(message) ==
    IF hasValidImage
    THEN UNCHANGED display
    ELSE /\ canvas' = ErrorScreen(message)
         /\ panel' = ErrorScreen(message)
         /\ refreshes' = refreshes + 1

\* connectWiFi: one turn of the poll loop, WiFi not yet connected
WiFiWait ==
    /\ pc = "connectWiFi"
    /\ attempts < WiFiAttemptLimit
    /\ attempts' = attempts + 1
    /\ UNCHANGED <<rtc, display, pc, catalog, latestFilename, dl, fetchCalls,
                   renderCalls, outcome, history>>
    /\ UNCHANGED <<commits, power, hashfw>>

\* connectWiFi: the loop ends (connected, or attempts exhausted), the status is
\* read again, connectWiFi returns (its local attempts is gone) and setup()
\* acts on the result
WiFiDone ==
    /\ pc = "connectWiFi"
    /\ attempts' = 0
    /\ \E loopSawConnected \in BOOLEAN, connected \in BOOLEAN :
        /\ loopSawConnected \/ attempts >= WiFiAttemptLimit
        /\ IF connected
           THEN /\ pc' = "getLatest"
                /\ UNCHANGED <<display, outcome>>
           ELSE /\ ShowTemporaryError("WiFi failed")
                /\ outcome' = "network"
                /\ pc' = "enterDeepSleep"
    /\ UNCHANGED <<rtc, catalog, latestFilename, dl, fetchCalls,
                   renderCalls, history>>
    /\ UNCHANGED <<commits, power, hashfw>>

\* setup: latestFilename = getLatestImageFilename(); empty result handled
ResolveLatest ==
    /\ pc = "getLatest"
    /\ \E resp \in CycleResponses :
        /\ catalog' = resp
        /\ latestFilename' = GetLatestImageFilename(resp)
    /\ IF Len(latestFilename') = 0
       THEN /\ ShowTemporaryError("No images in repo")
            /\ outcome' = "catalog"
            /\ pc' = "enterDeepSleep"
       ELSE /\ pc' = "compare"
            /\ UNCHANGED <<display, outcome>>
    /\ UNCHANGED <<rtc, attempts, dl, fetchCalls, renderCalls, history>>
    /\ UNCHANGED <<commits, power, hashfw>>

\* setup without the comparison: always on to downloadImage
CheckChanged_Mut ==
    /\ pc = "compare"
    /\ pc' = "download"
    /\ UNCHANGED <<rtc, display, attempts, catalog, latestFilename, dl, fetchCalls,
                   renderCalls, outcome, history>>
    /\ UNCHANGED <<commits, power, hashfw>>

\* setup: strcmp(latestFilename.c_str(), lastImageFilename) == 0
CheckChanged ==
    /\ pc = "compare"
    /\ IF StrCmp(latestFilename, lastImageFilename) = 0
       THEN /\ outcome' = "unchanged"
            /\ pc' = "enterDeepSleep"
       ELSE /\ pc' = "download"
            /\ UNCHANGED outcome
    /\ UNCHANGED <<rtc, display, attempts, catalog, latestFilename, dl, fetchCalls,
                   renderCalls, history>>
    /\ UNCHANGED <<commits, power, hashfw>>

----------------------------------------------------------------------------
(* downloadImage *)

\* values getSize() reports: unknown length, zero, small, the limit, above it
DeclaredSizes == {-1, 0, 1, 1000, MaxImageBytes, MaxImageBytes + 1}
\* values stream->available() reports when data has arrived
ChunkSizes == {1, 100, 900, MaxImageBytes}

\* the size check without its upper limit
SizeRejected_Mut(sz) == SizeLeq(sz, ToSizeT(0))

\* *imageSize <= 0 || *imageSize > 1024 * 1024, on the unsigned value
SizeRejected(sz) == SizeLeq(sz, ToSizeT(0)) \/ SizeLess(ToSizeT(MaxImageBytes), sz)

\* downloadImage up to the size check: GET, getSize, range test
DownloadGet ==
    /\ pc = "download"
    /\ fetchCalls' = fetchCalls + 1
    /\ \E code \in HttpCodes :
        IF code # HttpCodeOk
        THEN /\ pc' = "downloadReturn"
             /\ UNCHANGED <<declSize, imageSize>>
             /\ httpConnected' = FALSE
        ELSE \E sz \in DeclaredSizes :
                /\ declSize' = <<sz>>
                /\ imageSize' = ToSizeT(sz)
                /\ httpConnected' = ~SizeRejected(imageSize')
                /\ pc' = IF SizeRejected(imageSize') THEN "downloadReturn"
                         ELSE "downloadMalloc"
    /\ UNCHANGED <<rtc, display, attempts, catalog, latestFilename, bytesRead,
                   imageData, heap, reads, mallocCalls, frees, renderCalls,
                   outcome, history>>
    /\ UNCHANGED <<commits, power, hashfw>>

\* downloadImage: imageData = malloc(*imageSize)
DownloadMalloc ==
    /\ pc = "downloadMalloc"
    /\ mallocCalls' = mallocCalls + 1
    /\ \E ok \in BOOLEAN :
        IF ok
        THEN /\ imageData' = Buffer
             /\ heap' = heap + 1
             /\ UNCHANGED httpConnected
             /\ pc' = "downloadRead"
        ELSE /\ pc' = "downloadReturn"
             /\ UNCHANGED <<imageData, heap>>
             /\ httpConnected' = FALSE
    /\ UNCHANGED <<rtc, display, attempts, catalog, latestFilename, declSize,
                   imageSize, bytesRead, reads, frees, fetchCalls, renderCalls,
                   outcome, history>>
    /\ UNCHANGED <<commits, power, hashfw>>

\* the read without the cap at *imageSize - bytesRead
DownloadReadChunk_Uncapped ==
    /\ pc = "downloadRead"
    /\ httpConnected
    /\ SizeLess(bytesRead, imageSize)
    /\ UNCHANGED httpConnected
    /\ reads < MaxReads
    /\ \E available \in ChunkSizes :
        LET toRead == ToSizeT(available)
        IN  bytesRead' = SizeAdd(bytesRead, toRead)
    /\ reads' = reads + 1
    /\ UNCHANGED <<rtc, display, pc, attempts, catalog, latestFilename, declSize,
                   imageSize, imageData, heap, mallocCalls, frees, fetchCalls,
                   renderCalls, outcome, history>>
    /\ UNCHANGED <<commits, power, hashfw>>

\* the server closes the connection and nothing is left to read:
\* http.connected() turns false
ServerCloses ==
    /\ pc \in {"downloadMalloc", "downloadRead", "downloadDelay",
               "hDownloadMalloc", "hDownloadRead", "hDownloadDelay"}
    /\ httpConnected
    /\ httpConnected' = FALSE
    /\ UNCHANGED <<rtc, display, pc, attempts, catalog, latestFilename, declSize,
                   imageSize, bytesRead, imageData, heap, reads, mallocCalls,
                   frees, fetchCalls, renderCalls, outcome, history, commits,
                   power, hashfw>>

\* read loop, data available: toRead = min(available, *imageSize - bytesRead)
DownloadReadChunk ==
    /\ pc = "downloadRead"
    /\ httpConnected
    /\ SizeLess(bytesRead, imageSize)
    /\ UNCHANGED httpConnected
    /\ reads < MaxReads
    /\ \E available \in ChunkSizes :
        LET toRead == SizeMin(ToSizeT(available), SizeSub(imageSize, bytesRead))
        IN  bytesRead' = SizeAdd(bytesRead, toRead)
    /\ reads' = reads + 1
    /\ UNCHANGED <<rtc, display, pc, attempts, catalog, latestFilename, declSize,
                   imageSize, imageData, heap, mallocCalls, frees, fetchCalls,
                   renderCalls, outcome, history>>
    /\ UNCHANGED <<commits, power, hashfw>>

\* read loop, connected but available() == 0: delay(10)
DownloadReadIdle ==
    /\ pc = "downloadRead"
    /\ httpConnected
    /\ SizeLess(bytesRead, imageSize)
    /\ pc' = "downloadDelay"
    /\ UNCHANGED <<rtc, display, attempts, catalog, latestFilename, dl, fetchCalls,
                   renderCalls, outcome, history>>
    /\ UNCHANGED <<commits, power, hashfw>>

\* delay(10) returns, back to the loop condition
DownloadDelayDone ==
    /\ pc = "downloadDelay"
    /\ pc' = "downloadRead"
    /\ UNCHANGED <<rtc, display, attempts, catalog, latestFilename, dl, fetchCalls,
                   renderCalls, outcome, history>>
    /\ UNCHANGED <<commits, power, hashfw>>

\* the loop's exit without the free of a short read
DownloadReadExit_Mut ==
    /\ pc = "downloadRead"
    /\ ~httpConnected \/ ~SizeLess(bytesRead, imageSize)
    /\ httpConnected' = FALSE
    /\ IF bytesRead # imageSize
       THEN /\ imageData' = NullPtr
            /\ UNCHANGED <<heap, frees>>
       ELSE UNCHANGED <<heap, frees, imageData>>
    /\ pc' = "downloadReturn"
    /\ UNCHANGED <<rtc, display, attempts, catalog, latestFilename, declSize,
                   imageSize, bytesRead, reads, mallocCalls, fetchCalls,
                   renderCalls, outcome, history>>
    /\ UNCHANGED <<commits, power, hashfw>>

\* the loop ends (disconnected, or all bytes read); short reads are freed
DownloadReadExit ==
    /\ pc = "downloadRead"
    /\ ~httpConnected \/ ~SizeLess(bytesRead, imageSize)
    /\ httpConnected' = FALSE
    /\ IF bytesRead # imageSize
       THEN /\ heap' = heap - 1
            /\ frees' = frees + 1
            /\ imageData' = NullPtr
       ELSE UNCHANGED <<heap, frees, imageData>>
    /\ pc' = "downloadReturn"
    /\ UNCHANGED <<rtc, display, attempts, catalog, latestFilename, declSize,
                   imageSize, bytesRead, reads, mallocCalls, fetchCalls,
                   renderCalls, outcome, history>>
    /\ UNCHANGED <<commits, power, hashfw>>

\* downloadImage has returned (its locals are gone); setup: if (!imageData)
DownloadReturn ==
    /\ pc = "downloadReturn"
    /\ declSize' = NoSize
    /\ bytesRead' = ToSizeT(0)
    /\ reads' = 0
    /\ UNCHANGED httpConnected
    /\ IF imageData = NullPtr
       THEN /\ ShowTemporaryError("Download failed")
            /\ outcome' = "fetch"
            /\ pc' = "enterDeepSleep"
       ELSE /\ pc' = "display"
            /\ UNCHANGED <<display, outcome>>
    /\ UNCHANGED <<rtc, attempts, catalog, latestFilename, imageSize, imageData,
                   heap, mallocCalls, frees, fetchCalls, renderCalls, history>>
    /\ UNCHANGED <<commits, power, hashfw>>

----------------------------------------------------------------------------
(* displayImage, commit, cleanup, deep sleep *)

\* displayImage with a clearDisplay that refreshes the panel by itself
DisplayImage_ClearRefreshes ==
    /\ pc = "display"
    /\ renderCalls' = renderCalls + 1
    /\ \E success \in BOOLEAN :
        IF success
        THEN /\ canvas' = Image(latestFilename)
             /\ panel' = Image(latestFilename)
             /\ refreshes' = refreshes + 2
             /\ pc' = "commitName"
        ELSE /\ canvas' \in {Cleared, PartialDraw}
             /\ panel' = Cleared
             /\ refreshes' = refreshes + 1
             /\ pc' = "displayFailed"
    /\ UNCHANGED <<rtc, attempts, catalog, latestFilename, dl, fetchCalls,
                   outcome, history>>
    /\ UNCHANGED <<commits, power, hashfw>>

\* displayImage calling display() whatever drawJpg returned
DisplayImage_AlwaysShows ==
    /\ pc = "display"
    /\ renderCalls' = renderCalls + 1
    /\ \E success \in BOOLEAN :
        IF success
        THEN /\ canvas' = Image(latestFilename)
             /\ panel' = Image(latestFilename)
             /\ refreshes' = refreshes + 1
             /\ pc' = "commitName"
        ELSE /\ canvas' \in {Cleared, PartialDraw}
             /\ panel' = canvas'
             /\ refreshes' = refreshes + 1
             /\ pc' = "displayFailed"
    /\ UNCHANGED <<rtc, attempts, catalog, latestFilename, dl, fetchCalls,
                   outcome, history>>
    /\ UNCHANGED <<commits, power, hashfw>>

\* bool displayImage(imageData, imageSize): clearDisplay and drawJpg write the
\* draw buffer; M5.Display.display() is the single refresh, on success only
DisplayImage ==
    /\ pc = "display"
    /\ renderCalls' = renderCalls + 1
    /\ \E success \in BOOLEAN :
        IF success
        THEN /\ canvas' = Image(latestFilename)
             /\ panel' = Image(latestFilename)
             /\ refreshes' = refreshes + 1
             /\ pc' = "commitName"
        ELSE /\ canvas' \in {Cleared, PartialDraw}
             /\ UNCHANGED <<panel, refreshes>>
             /\ pc' = "displayFailed"
    /\ UNCHANGED <<rtc, attempts, catalog, latestFilename, dl, fetchCalls,
                   outcome, history>>
    /\ UNCHANGED <<commits, power, hashfw>>

\* the failure branch clearing hasValidImage
DisplayFailed_Invalidate ==
    /\ pc = "displayFailed"
    /\ ShowTemporaryError("Display failed")
    /\ hasValidImage' = FALSE
    /\ outcome' = "render"
    /\ pc' = "free"
    /\ UNCHANGED <<lastImageFilename, attempts, catalog, latestFilename, dl,
                   fetchCalls, renderCalls, history>>
    /\ UNCHANGED <<commits, power, hashfw>>

\* the failure branch storing the filename all the same
DisplayFailed_Mut ==
    /\ pc = "displayFailed"
    /\ ShowTemporaryError("Display failed")
    /\ lastImageFilename' = StrNCpy(latestFilename, LastImageFilenameSize - 1)
    /\ outcome' = "render"
    /\ pc' = "free"
    /\ UNCHANGED <<hasValidImage, attempts, catalog, latestFilename, dl,
                   fetchCalls, renderCalls, history>>
    /\ UNCHANGED <<commits, power, hashfw>>

\* setup: displayImage returned false
DisplayFailed ==
    /\ pc = "displayFailed"
    /\ ShowTemporaryError("Display failed")
    /\ outcome' = "render"
    /\ pc' = "free"
    /\ UNCHANGED <<rtc, attempts, catalog, latestFilename, dl, fetchCalls,
                   renderCalls, history>>
    /\ UNCHANGED <<commits, power, hashfw>>

\* the commit terminating the buffer at index 0 instead of sizeof - 1
CommitName_Empty ==
    /\ pc = "commitName"
    /\ lastImageFilename' = EmptyStr
    /\ pc' = "commitValid"
    /\ UNCHANGED <<hasValidImage, display, attempts, catalog, latestFilename, dl,
                   fetchCalls, renderCalls, outcome, history>>
    /\ commits' = commits + 1
    /\ UNCHANGED <<power, hashfw>>

\* setup: strncpy(lastImageFilename, ..., sizeof - 1); lastImageFilename[sizeof - 1] = 0
CommitName ==
    /\ pc = "commitName"
    /\ lastImageFilename' = StrNCpy(latestFilename, LastImageFilenameSize - 1)
    /\ pc' = "commitValid"
    /\ UNCHANGED <<hasValidImage, display, attempts, catalog, latestFilename, dl,
                   fetchCalls, renderCalls, outcome, history>>
    /\ commits' = commits + 1
    /\ UNCHANGED <<power, hashfw>>

\* setup: hasValidImage = true; delay(2000)
CommitValid ==
    /\ pc = "commitValid"
    /\ hasValidImage' = TRUE
    /\ outcome' = "committed"
    /\ pc' = "free"
    /\ UNCHANGED <<lastImageFilename, display, attempts, catalog, latestFilename,
                   dl, fetchCalls, renderCalls, history>>
    /\ UNCHANGED <<commits, power, hashfw>>

\* setup without the free(imageData) of line 314
FreeImage_Mut ==
    /\ pc = "free"
    /\ pc' = "enterDeepSleep"
    /\ UNCHANGED <<rtc, display, attempts, catalog, latestFilename, dl,
                   fetchCalls, renderCalls, outcome, history>>
    /\ UNCHANGED <<commits, power, hashfw>>

\* setup: free(imageData)
FreeImage ==
    /\ pc = "free"
    /\ heap' = heap - 1
    /\ frees' = frees + 1
    /\ UNCHANGED httpConnected
    /\ pc' = "enterDeepSleep"
    /\ UNCHANGED <<rtc, display, attempts, catalog, latestFilename, declSize,
                   imageSize, bytesRead, imageData, reads, mallocCalls,
                   fetchCalls, renderCalls, outcome, history>>
    /\ UNCHANGED <<commits, power, hashfw>>

\* void enterDeepSleep(): Serial.flush; WiFi.disconnect, WiFi.mode(WIFI_OFF),
\* esp_wifi_stop; esp_bt_controller_disable; M5.Display.sleep; all wake sources
\* disabled; timer wake enabled; esp_deep_sleep_start(), which does not return
EnterDeepSleep ==
    /\ pc = "enterDeepSleep"
    /\ sleepLog' = <<"flush", "wifiOff", "btOff", "displaySleep",
                     "disableWakeAll", "timerWake", "deepSleepStart">>
    /\ radio' = "off"
    /\ wakeSources' = (wakeSources \ wakeSources) \cup {"timer"}
    /\ pc' = "sleeping"
    /\ UNCHANGED <<rtc, display, attempts, catalog, latestFilename, dl, fetchCalls,
                   renderCalls, outcome, history, commits, hashfw>>

\* a timer wake restarts the program: RAM is as after power-on
WakeRam ==
    /\ canvas' = PowerOn
    /\ refreshes' = 0
    /\ attempts' = 0
    /\ catalog' = NoCatalog
    /\ latestFilename' = EmptyStr
    /\ declSize' = NoSize
    /\ imageSize' = ToSizeT(0)
    /\ bytesRead' = ToSizeT(0)
    /\ httpConnected' = FALSE
    /\ imageData' = NullPtr
    /\ heap' = 0
    /\ reads' = 0
    /\ mallocCalls' = 0
    /\ frees' = 0
    /\ fetchCalls' = 0
    /\ renderCalls' = 0
    /\ outcome' = "none"
    /\ commits' = 0
    /\ radio' = "sta"
    /\ wakeSources' = {}
    /\ sleepLog' = <<>>
    /\ currentHash' = NoHash
    /\ content' = NoContent

\* timer wake: RAM starts afresh, the RTC variables and the panel are retained
Wake ==
    /\ pc = "sleeping"
    /\ pc' = "connectWiFi"
    /\ WakeRam
    /\ UNCHANGED <<rtc, panel>>
    /\ startName' = lastImageFilename
    /\ startValid' = hasValidImage
    /\ startPanel' = panel
    /\ seqName' = IF outcome \in Failures THEN seqName ELSE lastImageFilename
    /\ seqValid' = IF outcome \in Failures THEN seqValid ELSE hasValidImage
    /\ failRun' = IF outcome \in Failures THEN Min(failRun + 1, MaxFailRun) ELSE 0
    /\ prevCommitted' = IF outcome = "committed" THEN latestFilename ELSE EmptyStr
    /\ UNCHANGED <<lastImageHash, startHash>>

Next ==
    \/ WiFiWait
    \/ WiFiDone
    \/ ResolveLatest
    \/ CheckChanged
    \/ DownloadGet
    \/ DownloadMalloc
    \/ DownloadReadChunk
    \/ DownloadReadIdle
    \/ ServerCloses
    \/ DownloadDelayDone
    \/ DownloadReadExit
    \/ DownloadReturn
    \/ DisplayImage
    \/ DisplayFailed
    \/ CommitName
    \/ CommitValid
    \/ FreeImage
    \/ EnterDeepSleep
    \/ Wake

Spec == Init /\ [][Next]_vars

\* the processor always takes the program's next step; what the network
\* answers is not constrained
FairSpec == Spec /\ WF_vars(Next)

----------------------------------------------------------------------------
(* The hash-based firmware, src/src/main.cpp.  It has its own positions of
   setup(), prefixed with h; connectWiFi and downloadImage read as in the
   filename-based firmware.  It never calls display(): clear, drawJpg and
   drawString act on the panel directly. *)

\* the image files IMAGE_URL can deliver
Contents == {"bytesA", "bytesB"}

\* calculateSHA256: the hex digest, one per content
Sha256(bytes) == <<"sha256", bytes>>

\* first power-on of the hash-based firmware
HashInit ==
    /\ lastImageFilename = EmptyStr
    /\ hasValidImage = FALSE
    /\ panel = PowerOn
    /\ lastImageHash = NoHash
    /\ startHash = NoHash
    /\ FreshRam
    /\ pc = "hConnectWiFi"
    /\ startName = EmptyStr
    /\ startValid = FALSE
    /\ startPanel = PowerOn
    /\ seqName = EmptyStr
    /\ seqValid = FALSE
    /\ failRun = 0
    /\ prevCommitted = EmptyStr

\* void showError(const char* message): always draws
HashShowError(message) ==
    /\ canvas' = ErrorScreen(message)
    /\ panel' = ErrorScreen(message)
    /\ refreshes' = refreshes + 1

\* connectWiFi: one turn of the poll loop
HashWiFiWait ==
    /\ pc = "hConnectWiFi"
    /\ attempts < WiFiAttemptLimit
    /\ attempts' = attempts + 1
    /\ UNCHANGED <<rtc, display, pc, catalog, latestFilename, dl, fetchCalls,
                   renderCalls, outcome, history, commits, power, hashfw>>

\* connectWiFi returns; setup shows the error and sleeps, or downloads
HashWiFiDone ==
    /\ pc = "hConnectWiFi"
    /\ attempts' = 0
    /\ \E loopSawConnected \in BOOLEAN, connected \in BOOLEAN :
        /\ loopSawConnected \/ attempts >= WiFiAttemptLimit
        /\ IF connected
           THEN /\ pc' = "hDownload"
                /\ UNCHANGED <<display, outcome>>
           ELSE /\ HashShowError("WiFi connection failed")
                /\ outcome' = "network"
                /\ pc' = "hEnterDeepSleep"
    /\ UNCHANGED <<rtc, catalog, latestFilename, dl, fetchCalls, renderCalls,
                   history, commits, power, hashfw>>

\* downloadImage up to the size check
HashDownloadGet ==
    /\ pc = "hDownload"
    /\ fetchCalls' = fetchCalls + 1
    /\ \E code \in HttpCodes :
        IF code # HttpCodeOk
        THEN /\ pc' = "hDownloadReturn"
             /\ UNCHANGED <<declSize, imageSize, content>>
             /\ httpConnected' = FALSE
        ELSE \E sz \in DeclaredSizes, bytes \in Contents :
                /\ content' = bytes
                /\ declSize' = <<sz>>
                /\ imageSize' = ToSizeT(sz)
                /\ httpConnected' = ~SizeRejected(imageSize')
                /\ pc' = IF SizeRejected(imageSize') THEN "hDownloadReturn"
                         ELSE "hDownloadMalloc"
    /\ UNCHANGED <<rtc, display, attempts, catalog, latestFilename, bytesRead,
                   imageData, heap, reads, mallocCalls, frees, renderCalls,
                   outcome, history>>
    /\ UNCHANGED <<commits, power, lastImageHash, currentHash, startHash>>

\* downloadImage: malloc
HashDownloadMalloc ==
    /\ pc = "hDownloadMalloc"
    /\ mallocCalls' = mallocCalls + 1
    /\ \E ok \in BOOLEAN :
        IF ok
        THEN /\ imageData' = Buffer
             /\ heap' = heap + 1
             /\ UNCHANGED httpConnected
             /\ pc' = "hDownloadRead"
        ELSE /\ pc' = "hDownloadReturn"
             /\ UNCHANGED <<imageData, heap>>
             /\ httpConnected' = FALSE
    /\ UNCHANGED <<rtc, display, attempts, catalog, latestFilename, declSize,
                   imageSize, bytesRead, reads, frees, fetchCalls, renderCalls,
                   outcome, history>>
    /\ UNCHANGED <<commits, power, hashfw>>

\* downloadImage: read loop, data available
HashDownloadReadChunk ==
    /\ pc = "hDownloadRead"
    /\ httpConnected
    /\ SizeLess(bytesRead, imageSize)
    /\ UNCHANGED httpConnected
    /\ reads < MaxReads
    /\ \E available \in ChunkSizes :
        LET toRead == SizeMin(ToSizeT(available), SizeSub(imageSize, bytesRead))
        IN  bytesRead' = SizeAdd(bytesRead, toRead)
    /\ reads' = reads + 1
    /\ UNCHANGED <<rtc, display, pc, attempts, catalog, latestFilename, declSize,
                   imageSize, imageData, heap, mallocCalls, frees, fetchCalls,
                   renderCalls, outcome, history>>
    /\ UNCHANGED <<commits, power, hashfw>>

\* downloadImage: read loop, no data: delay(10)
HashDownloadReadIdle ==
    /\ pc = "hDownloadRead"
    /\ httpConnected
    /\ SizeLess(bytesRead, imageSize)
    /\ pc' = "hDownloadDelay"
    /\ UNCHANGED <<rtc, display, attempts, catalog, latestFilename, dl, fetchCalls,
                   renderCalls, outcome, history>>
    /\ UNCHANGED <<commits, power, hashfw>>

\* downloadImage: delay(10) returns
HashDownloadDelayDone ==
    /\ pc = "hDownloadDelay"
    /\ pc' = "hDownloadRead"
    /\ UNCHANGED <<rtc, display, attempts, catalog, latestFilename, dl, fetchCalls,
                   renderCalls, outcome, history>>
    /\ UNCHANGED <<commits, power, hashfw>>

\* downloadImage: the loop ends; short reads are freed
HashDownloadReadExit ==
    /\ pc = "hDownloadRead"
    /\ ~httpConnected \/ ~SizeLess(bytesRead, imageSize)
    /\ httpConnected' = FALSE
    /\ IF bytesRead # imageSize
       THEN /\ heap' = heap - 1
            /\ frees' = frees + 1
            /\ imageData' = NullPtr
       ELSE UNCHANGED <<heap, frees, imageData>>
    /\ pc' = "hDownloadReturn"
    /\ UNCHANGED <<rtc, display, attempts, catalog, latestFilename, declSize,
                   imageSize, bytesRead, reads, mallocCalls, fetchCalls,
                   renderCalls, outcome, history>>
    /\ UNCHANGED <<commits, power, hashfw>>

\* downloadImage has returned; setup: if (!imageData)
HashDownloadReturn ==
    /\ pc = "hDownloadReturn"
    /\ declSize' = NoSize
    /\ bytesRead' = ToSizeT(0)
    /\ reads' = 0
    /\ UNCHANGED httpConnected
    /\ IF imageData = NullPtr
       THEN /\ HashShowError("Image download failed")
            /\ outcome' = "fetch"
            /\ pc' = "hEnterDeepSleep"
       ELSE /\ pc' = "hHash"
            /\ UNCHANGED <<display, outcome>>
    /\ UNCHANGED <<rtc, attempts, catalog, latestFilename, imageSize, imageData,
                   heap, mallocCalls, frees, fetchCalls, renderCalls, history,
                   commits, power, hashfw>>

\* setup: calculateSHA256(imageData, imageSize, currentHash)
HashCompute ==
    /\ pc = "hHash"
    /\ currentHash' = Sha256(content)
    /\ pc' = "hCompare"
    /\ UNCHANGED <<rtc, display, attempts, catalog, latestFilename, dl, fetchCalls,
                   renderCalls, outcome, history, commits, power, lastImageHash,
                   content, startHash>>

\* setup without the hash comparison: always on to displayImage
HashCheckChanged_Mut ==
    /\ pc = "hCompare"
    /\ pc' = "hDisplay"
    /\ UNCHANGED <<rtc, display, attempts, catalog, latestFilename, dl,
                   fetchCalls, renderCalls, outcome, history, commits, power,
                   hashfw>>

\* setup: strcmp(currentHash, lastImageHash) == 0: free and sleep
HashCheckChanged ==
    /\ pc = "hCompare"
    /\ UNCHANGED httpConnected
    /\ IF currentHash = lastImageHash
       THEN /\ heap' = heap - 1
            /\ frees' = frees + 1
            /\ outcome' = "unchanged"
            /\ pc' = "hEnterDeepSleep"
       ELSE /\ pc' = "hDisplay"
            /\ UNCHANGED <<heap, frees, outcome>>
    /\ UNCHANGED <<rtc, display, attempts, catalog, latestFilename, declSize,
                   imageSize, bytesRead, imageData, reads, mallocCalls,
                   fetchCalls, renderCalls, history, commits, power, hashfw>>

\* bool displayImage(imageData, imageSize): clear, then drawJpg to the display
HashDisplayImage ==
    /\ pc = "hDisplay"
    /\ renderCalls' = renderCalls + 1
    /\ refreshes' = refreshes + 1
    /\ \E success \in BOOLEAN :
        IF success
        THEN /\ canvas' = Image(content)
             /\ panel' = Image(content)
             /\ pc' = "hCommit"
        ELSE /\ canvas' \in {Cleared, PartialDraw}
             /\ panel' = canvas'
             /\ pc' = "hDisplayFailed"
    /\ UNCHANGED <<rtc, attempts, catalog, latestFilename, dl, fetchCalls,
                   outcome, history, commits, power, hashfw>>

\* setup: strcpy(lastImageHash, currentHash)
HashCommit ==
    /\ pc = "hCommit"
    /\ lastImageHash' = currentHash
    /\ commits' = commits + 1
    /\ outcome' = "committed"
    /\ pc' = "hFree"
    /\ UNCHANGED <<rtc, display, attempts, catalog, latestFilename, dl, fetchCalls,
                   renderCalls, history, power, currentHash, content, startHash>>

\* setup: showError("Failed to display image")
HashDisplayFailed ==
    /\ pc = "hDisplayFailed"
    /\ HashShowError("Failed to display image")
    /\ outcome' = "render"
    /\ pc' = "hFree"
    /\ UNCHANGED <<rtc, attempts, catalog, latestFilename, dl, fetchCalls,
                   renderCalls, history, commits, power, hashfw>>

\* setup: free(imageData); delay(2000)
HashFreeImage ==
    /\ pc = "hFree"
    /\ heap' = heap - 1
    /\ frees' = frees + 1
    /\ UNCHANGED httpConnected
    /\ pc' = "hEnterDeepSleep"
    /\ UNCHANGED <<rtc, display, attempts, catalog, latestFilename, declSize,
                   imageSize, bytesRead, imageData, reads, mallocCalls,
                   fetchCalls, renderCalls, outcome, history, commits, power,
                   hashfw>>

\* void enterDeepSleep(): WiFi.disconnect, WiFi.mode(WIFI_OFF); timer wake
\* enabled; esp_deep_sleep_start()
HashEnterDeepSleep ==
    /\ pc = "hEnterDeepSleep"
    /\ sleepLog' = <<"wifiOff", "timerWake", "deepSleepStart">>
    /\ radio' = "off"
    /\ wakeSources' = wakeSources \cup {"timer"}
    /\ pc' = "hSleeping"
    /\ UNCHANGED <<rtc, display, attempts, catalog, latestFilename, dl, fetchCalls,
                   renderCalls, outcome, history, commits, hashfw>>

\* timer wake of the hash-based firmware
HashWake ==
    /\ pc = "hSleeping"
    /\ pc' = "hConnectWiFi"
    /\ WakeRam
    /\ UNCHANGED <<rtc, panel, lastImageHash>>
    /\ startHash' = lastImageHash
    /\ startPanel' = panel
    /\ UNCHANGED <<startName, startValid, seqName, seqValid, failRun, prevCommitted>>

HashNext ==
    \/ HashWiFiWait
    \/ HashWiFiDone
    \/ HashDownloadGet
    \/ HashDownloadMalloc
    \/ HashDownloadReadChunk
    \/ HashDownloadReadIdle
    \/ ServerCloses
    \/ HashDownloadDelayDone
    \/ HashDownloadReadExit
    \/ HashDownloadReturn
    \/ HashCompute
    \/ HashCheckChanged
    \/ HashDisplayImage
    \/ HashCommit
    \/ HashDisplayFailed
    \/ HashFreeImage
    \/ HashEnterDeepSleep
    \/ HashWake

SpecHash == HashInit /\ [][HashNext]_vars

\* either firmware, as flashed
BothInit == Init \/ HashInit
BothNext == Next \/ HashNext
SpecBoth == BothInit /\ [][BothNext]_vars
FairBoth == SpecBoth /\ WF_vars(BothNext)

----------------------------------------------------------------------------
(* A reset that abandons a wake cycle of the filename-based firmware between
   two steps of setup.  RAM starts afresh and the panel keeps what it shows;
   the RTC variables are either retained as they stand or loaded again with
   their initial values, depending on the kind of reset. *)

Reset ==
    /\ pc \notin {"sleeping", "select", "selected"}
    /\ pc' = "connectWiFi"
    /\ WakeRam
    /\ UNCHANGED <<panel, lastImageHash, startHash>>
    /\ \E retained \in BOOLEAN :
        IF retained
        THEN UNCHANGED rtc
        ELSE lastImageFilename' = EmptyStr /\ hasValidImage' = FALSE
    /\ startName' = lastImageFilename'
    /\ startValid' = hasValidImage'
    /\ startPanel' = panel
    /\ prevCommitted' = EmptyStr
    /\ UNCHANGED <<seqName, seqValid, failRun>>

ResetNext == Next \/ Reset
SpecReset == Init /\ [][ResetNext]_vars

----------------------------------------------------------------------------
(* The selection function on its own: every listing up to MaxListing entries *)

SelectInit ==
    /\ lastImageFilename = EmptyStr
    /\ hasValidImage = FALSE
    /\ panel = PowerOn
    /\ canvas = PowerOn
    /\ refreshes = 0
    /\ attempts = 0
    /\ catalog \in SelectResponses
    /\ latestFilename = EmptyStr
    /\ declSize = NoSize
    /\ imageSize = ToSizeT(0)
    /\ bytesRead = ToSizeT(0)
    /\ httpConnected = FALSE
    /\ imageData = NullPtr
    /\ heap = 0
    /\ reads = 0
    /\ mallocCalls = 0
    /\ frees = 0
    /\ fetchCalls = 0
    /\ renderCalls = 0
    /\ outcome = "none"
    /\ commits = 0
    /\ radio = "sta"
    /\ wakeSources = {}
    /\ sleepLog = <<>>
    /\ lastImageHash = NoHash
    /\ startHash = NoHash
    /\ currentHash = NoHash
    /\ content = NoContent
    /\ pc = "select"
    /\ startName = EmptyStr
    /\ startValid = FALSE
    /\ startPanel = PowerOn
    /\ seqName = EmptyStr
    /\ seqValid = FALSE
    /\ failRun = 0
    /\ prevCommitted = EmptyStr

\* latestFilename = getLatestImageFilename() on the drawn response
SelectApply ==
    /\ pc = "select"
    /\ latestFilename' = GetLatestImageFilename(catalog)
    /\ pc' = "selected"
    /\ UNCHANGED <<rtc, display, attempts, catalog, dl, fetchCalls, renderCalls,
                   outcome, history>>
    /\ UNCHANGED <<commits, power, hashfw>>

SelectNext == SelectApply

SpecSelect == SelectInit /\ [][SelectNext]_vars

----------------------------------------------------------------------------
(* Properties *)

\* the cycle has handed control to enterDeepSleep, or is asleep
CycleEnded == pc \in {"enterDeepSleep", "sleeping"}

\* C1: whenever a wake cycle has entered deep sleep with hasValidImage true,
\* lastImageFilename is non-empty and is the identifier of the image the panel
\* shows.
C1_ValidMeansShown ==
    (pc = "sleeping" /\ hasValidImage)
        => (lastImageFilename # EmptyStr /\ panel = Image(lastImageFilename))

\* C2: a cycle that ends in a network, catalog, fetch or render failure leaves
\* (lastImageFilename, hasValidImage) as it found them, and so does every run of
\* consecutive such cycles.
C2_FailurePreservesState ==
    (CycleEnded /\ outcome \in Failures)
        => /\ rtc = <<startName, startValid>>
           /\ rtc = <<seqName, seqValid>>

\* C2 witness: a third failed cycle in a row ends, with an image committed before
C2_FailedRunEnds ==
    /\ pc = "sleeping"
    /\ outcome = "render"
    /\ failRun = MaxFailRun
    /\ hasValidImage
    /\ lastImageFilename = ImgA

\* C3: when the previous cycle rendered and committed an identifier and this
\* cycle's catalog resolves the same identifier, this cycle makes no fetch call,
\* no render call and no panel refresh, and leaves the retained pair unchanged.
C3_NoChangeCycle ==
    (prevCommitted # EmptyStr /\ latestFilename = prevCommitted)
        => /\ fetchCalls = 0
           /\ renderCalls = 0
           /\ refreshes = 0
           /\ rtc = <<startName, startValid>>

\* C4: every wake cycle eventually reaches deep sleep.
C4_AlwaysSleeps == (pc = "connectWiFi") ~> (pc = "sleeping")

\* C5: a cycle in which WiFi, catalog, fetch and render all succeed ends with the
\* retained pair (resolved identifier, true) and exactly one panel refresh.
C5_HappyPath ==
    (CycleEnded /\ outcome = "committed")
        => /\ lastImageFilename = latestFilename
           /\ hasValidImage
           /\ refreshes = 1

IsSuffix(suffix, s) == \E k \in 0..Len(s) : SubSeq(s, k + 1, Len(s)) = suffix

\* a is strictly before b in byte-wise lexicographic order
LexLess(a, b) ==
    \E k \in 1..(Min(Len(a), Len(b)) + 1) :
        /\ \A j \in 1..(k - 1) : a[j] = b[j]
        /\ \/ (k > Len(a) /\ k <= Len(b))
           \/ (k <= Len(a) /\ k <= Len(b) /\ a[k] < b[k])

\* names of the file entries of a listing whose name satisfies ext
FileNames(items, ext(_)) ==
    { items[i].name : i \in { j \in DOMAIN items :
        /\ items[j].type = "file"
        /\ items[j].name # NullName
        /\ ext(items[j].name) } }

LowerExt(name) == IsSuffix(DotJpg, name) \/ IsSuffix(DotJpeg, name)
AnyCaseExt(name) == LowerExt(LowerCase(name))

\* name is the greatest element of Q, or empty when Q is empty
IsGreatestOf(name, Q) ==
    IF Q = {} THEN name = EmptyStr
    ELSE name \in Q /\ \A m \in Q : ~LexLess(name, m)

\* the catalog request succeeded and delivered a JSON array
GotListing == catalog.code = HttpCodeOk /\ catalog.parses /\ catalog.isArray

\* C7: getLatestImageFilename returns the byte-wise greatest name among the
\* entries of type "file" whose name ends in .jpg or .jpeg, and the empty string
\* when no entry qualifies.
C7_SelectsGreatest ==
    (pc = "selected" /\ GotListing)
        => IsGreatestOf(latestFilename, FileNames(catalog.items, LowerExt))

\* C7 witness: the listing 20240101_0000.jpg, 20240229_1200.jpeg, notes.txt,
\* 20231231_2359.jpg has resolved to 20240229_1200.jpeg
C7_ExampleListing ==
    /\ pc = "selected"
    /\ catalog = OkListing(<<Entry(Name0101, "file"), Entry(Name0229, "file"),
                             Entry(NameNotes, "file"), Entry(Name1231, "file")>>)
    /\ latestFilename = Name0229

\* C8 as stated: the eligible entries are the file entries whose name ends in
\* .jpg or .jpeg compared case-insensitively, and the greatest of them is
\* returned.
C8_CaseInsensitive ==
    (pc = "selected" /\ GotListing)
        => IsGreatestOf(latestFilename, FileNames(catalog.items, AnyCaseExt))

\* C8 amended: the extension is compared case-sensitively; a file entry whose
\* extension is .jpg or .jpeg in upper or mixed case is never returned, and
\* the result is empty when no entry has the lower-case extension.
C8_CaseSensitive ==
    (pc = "selected" /\ GotListing)
        => /\ latestFilename = EmptyStr \/ LowerExt(latestFilename)
           /\ latestFilename \notin
                (FileNames(catalog.items, AnyCaseExt) \ FileNames(catalog.items, LowerExt))
           /\ FileNames(catalog.items, LowerExt) = {} => latestFilename = EmptyStr

\* C8 witness: X.JPG, the greatest name of its listing, was passed over
C8_UpperCasePassedOver ==
    /\ pc = "selected"
    /\ catalog = OkListing(<<Entry(NameUpper, "file"), Entry(Name0101, "file")>>)
    /\ latestFilename = Name0101

\* the declared size is outside (0, 1048576]
DeclaredOutOfRange ==
    /\ declSize # NoSize
    /\ (declSize[1] <= 0 \/ declSize[1] > MaxImageBytes)

\* C9: a response whose declared size is outside (0, 1048576], the unknown
\* length -1 included, makes downloadImage return null without any allocation
\* having been attempted.
C9_SizeGate ==
    DeclaredOutOfRange
        => /\ pc = "downloadReturn"
           /\ imageData = NullPtr
           /\ mallocCalls = 0
           /\ heap = 0

\* C9 witness: the unknown length -1 has been rejected
C9_UnknownLengthRejected ==
    /\ pc = "downloadReturn"
    /\ declSize = <<-1>>
    /\ imageData = NullPtr

\* C10: downloadImage returns a buffer only when bytesRead equals the declared
\* size; on every null return no allocated buffer remains.
C10_CompleteOrNull ==
    pc = "downloadReturn"
        => /\ imageData # NullPtr => (bytesRead = imageSize /\ heap = 1)
           /\ bytesRead # imageSize => imageData = NullPtr
           /\ imageData = NullPtr => heap = 0

\* C10 witness: 900 of 1000 bytes arrived, null was returned, the buffer freed
C10_ShortReadFreed ==
    /\ pc = "downloadReturn"
    /\ imageSize = ToSizeT(1000)
    /\ bytesRead = ToSizeT(900)
    /\ imageData = NullPtr
    /\ mallocCalls = 1
    /\ frees = 1
    /\ heap = 0

----------------------------------------------------------------------------
(* Power-down and buffer lifetime, for either firmware. *)

Asleep == pc \in {"sleeping", "hSleeping"}

\* the stage of the power-down sequence a step of enterDeepSleep belongs to:
\* 1 flush, 2 radio and peripherals off, 3 wake sources, 4 deep sleep start
SleepPhase(step) ==
    CASE step = "flush" -> 1
      [] step \in {"wifiOff", "btOff", "displaySleep"} -> 2
      [] step \in {"disableWakeAll", "timerWake"} -> 3
      [] step = "deepSleepStart" -> 4

\* every stage is present and the stages are performed in order
PhasesInOrder(log) ==
    /\ \A ph \in 1..4 : \E i \in 1..Len(log) : SleepPhase(log[i]) = ph
    /\ \A i, j \in 1..Len(log) : i < j => SleepPhase(log[i]) <= SleepPhase(log[j])

\* C13: once enterDeepSleep is invoked nothing is written to the retained
\* state, no network call is made and the panel is not touched; the function
\* flushes, then switches off radio and peripherals, then sets up the wake
\* sources, then starts deep sleep, with the radio off and the timer the only
\* armed wake source.
C13_PowerDownSequence ==
    [][(pc \in {"enterDeepSleep", "hEnterDeepSleep"}) =>
          /\ UNCHANGED <<rtc, lastImageHash, display, fetchCalls, catalog>>
          /\ PhasesInOrder(sleepLog')
          /\ radio' = "off"
          /\ wakeSources' = {"timer"}]_vars

\* the hash-based firmware asleep: no flush was performed
C13_HashAsleepNoFlush ==
    /\ pc = "hSleeping"
    /\ radio = "off"
    /\ \A i \in 1..Len(sleepLog) : sleepLog[i] # "flush"

\* C14: whenever the device is asleep no image buffer is allocated, and a
\* buffer downloadImage returned (to the hash comparison or to displayImage)
\* was freed exactly once whatever displayImage returned; no buffer is ever
\* freed twice or freed without having been allocated.
C14_BufferLifetime ==
    /\ heap \in {0, 1}
    /\ frees <= mallocCalls
    /\ Asleep => /\ heap = 0
                 /\ frees <= 1
                 /\ (renderCalls = 1 \/ (outcome = "unchanged" /\ pc = "hSleeping"))
                        => frees = 1

\* asleep after a failed render, the buffer freed once
C14_FreedAfterFailedRender ==
    /\ Asleep
    /\ outcome = "render"
    /\ mallocCalls = 1
    /\ frees = 1
    /\ heap = 0

----------------------------------------------------------------------------
(* Catalog failure *)

\* the catalog request of this cycle failed, or its listing has no file entry
\* with an image extension
CatalogFailed ==
    /\ catalog # NoCatalog
    /\ ~GotListing \/ FileNames(catalog.items, LowerExt) = {}

\* C15: when the catalog request is not OK, is unparsable, is not an array or
\* lists no qualifying entry, getLatestImageFilename returns the empty string
\* and the cycle goes to sleep on the degraded branch with no fetch, no render
\* and the retained pair as it was at wake.
C15_CatalogFailureIsEmpty ==
    CatalogFailed =>
        /\ latestFilename = EmptyStr
        /\ pc \in {"enterDeepSleep", "sleeping"}
        /\ outcome = "catalog"
        /\ fetchCalls = 0
        /\ renderCalls = 0
        /\ rtc = <<startName, startValid>>

\* asleep after a listing of only a directory and an upper-case name, the
\* image of an earlier cycle retained
C15_NoQualifyingEntry ==
    /\ pc = "sleeping"
    /\ catalog = OkListing(<<Entry(NameUpper, "file"), Entry(NameDir, "dir")>>)
    /\ outcome = "catalog"
    /\ hasValidImage
    /\ lastImageFilename = ImgA

----------------------------------------------------------------------------
(* Hash-based firmware *)

HashDiffers == currentHash # startHash

----------------------------------------------------------------------------
(* Decision and commit, with resets *)

\* C17: setup takes the unchanged branch exactly when the resolved name equals
\* the retained name and hasValidImage is true; otherwise it goes on to fetch.
C17_UnchangedIffEqualAndValid ==
    [][CheckChanged =>
          ((pc' = "enterDeepSleep")
             <=> (latestFilename = lastImageFilename /\ hasValidImage))]_vars

\* C18: the retained pair is written only after displayImage returned success
\* in this cycle with the resolved image on the panel, at most one commit is
\* made per cycle, hasValidImage never goes back to false and
\* lastImageFilename never goes back to empty.
C18_CommitDiscipline ==
    [][/\ rtc' # rtc => /\ pc \in {"commitName", "commitValid"}
                        /\ renderCalls = 1
                        /\ panel = Image(latestFilename)
       /\ commits' <= 1
       /\ hasValidImage => hasValidImage'
       /\ Len(lastImageFilename) > 0 => Len(lastImageFilename') > 0]_vars

\* a second image committed over a first one
C18_SecondCommit ==
    /\ pc = "free"
    /\ outcome = "committed"
    /\ commits = 1
    /\ startValid
    /\ startName = ImgA
    /\ lastImageFilename = ImgB
    /\ hasValidImage

\* C19: after a reset at any point of a cycle the retained pair is the pair
\* the cycle started with or (resolved name, true), and a true hasValidImage
\* still goes with the panel showing the retained name.
C19_AtomicCommitUnderReset ==
    [][Reset =>
          /\ \/ rtc' = <<startName, startValid>>
             \/ rtc' = <<latestFilename, TRUE>>
          /\ hasValidImage' => panel' = Image(lastImageFilename')]_vars

\* C20: the WiFi poll loop and the read loop of downloadImage each come to an
\* end, also when the connection stays open and no further byte arrives.
C20_NetworkWaitsEnd ==
    /\ (pc \in {"downloadRead", "downloadDelay"}) ~> (pc = "downloadReturn")
    /\ (pc \in {"hDownloadRead", "hDownloadDelay"}) ~> (pc = "hDownloadReturn")
    /\ (pc = "connectWiFi") ~> (pc # "connectWiFi")
    /\ (pc = "hConnectWiFi") ~> (pc # "hConnectWiFi")

----------------------------------------------------------------------------
(* Error indicator, stage order, retained scalars *)

\* the message setup passes to showTemporaryError for each failure
ErrorMessage(failure) ==
    CASE failure = "network" -> "WiFi failed"
      [] failure = "catalog" -> "No images in repo"
      [] failure = "fetch" -> "Download failed"
      [] failure = "render" -> "Display failed"

C22_StageOrder ==
    [][pc # "sleeping" =>
          /\ catalog' # catalog =>
                /\ pc = "getLatest"
                /\ catalog = NoCatalog
                /\ fetchCalls = 0
                /\ renderCalls = 0
          /\ fetchCalls' # fetchCalls =>
                /\ fetchCalls = 0
                /\ catalog # NoCatalog
                /\ Len(latestFilename) > 0
                /\ latestFilename # lastImageFilename
                /\ renderCalls = 0
          /\ renderCalls' # renderCalls =>
                /\ renderCalls = 0
                /\ fetchCalls = 1
                /\ imageData = Buffer
                /\ heap = 1
          /\ (pc = "downloadReturn" /\ imageData # NullPtr) => bytesRead = imageSize]_vars

\* all three stages done once, the buffer not yet freed
C22_AllStagesOnce ==
    /\ pc = "free"
    /\ GotListing
    /\ fetchCalls = 1
    /\ renderCalls = 1
    /\ heap = 1

\* C23: at every cycle boundary hasValidImage is true exactly when
\* lastImageFilename is not empty.
C23_ScalarsAgree ==
    (pc \in {"sleeping", "connectWiFi"}) => (hasValidImage <=> Len(lastImageFilename) > 0)

\* asleep with a retained image, the cycle having changed nothing
C23_ValidAndNamed ==
    /\ pc = "sleeping"
    /\ hasValidImage
    /\ lastImageFilename = ImgB
    /\ outcome = "unchanged"

\* the first n characters of a name
Prefix(name, n) == [i \in 1..Min(Len(name), n) |-> name[i]]

\* C24: once the name is committed lastImageFilename has at most 63
\* characters, is the first 63 characters of the resolved name, and equals the
\* resolved name exactly when that name has at most 63 characters.
C24_BoundedIdentifier ==
    (pc \in {"commitValid", "free"} /\ commits = 1) =>
        /\ Len(lastImageFilename) <= LastImageFilenameSize - 1
        /\ lastImageFilename = Prefix(latestFilename, LastImageFilenameSize - 1)
        /\ (lastImageFilename = latestFilename)
              <=> (Len(latestFilename) <= LastImageFilenameSize - 1)

\* a 64-character name committed as its first 63 characters
C24_LongNameCut ==
    /\ pc = "free"
    /\ commits = 1
    /\ latestFilename = Name64
    /\ Len(lastImageFilename) = 63

----------------------------------------------------------------------------
(* Read loop of downloadImage *)

InDownloadImage ==
    pc \in {"downloadRead", "downloadDelay", "downloadReturn",
            "hDownloadRead", "hDownloadDelay", "hDownloadReturn"}

LoopExits ==
    /\ pc \in {"downloadRead", "hDownloadRead"}
    /\ pc' \in {"downloadReturn", "hDownloadReturn"}

\* C25: in the read loop bytesRead never exceeds the declared size, before and
\* after every read, so every write stays inside the buffer; and the loop is
\* left only with bytesRead equal to the declared size or with
\* http.connected() false.
C25_ReadsStayInBuffer ==
    [][/\ InDownloadImage => SizeLeq(bytesRead, imageSize)
       /\ (InDownloadImage /\ bytesRead' # bytesRead /\ ~LoopExits /\ pc' = pc)
             => SizeLeq(bytesRead', imageSize)
       /\ LoopExits => (bytesRead = imageSize \/ ~httpConnected)]_vars

\* 1000 bytes declared, read in two reads of which the second was capped
C25_CappedSecondRead ==
    /\ pc = "hDownloadReturn"
    /\ reads = 2
    /\ imageSize = ToSizeT(1000)
    /\ bytesRead = imageSize
    /\ imageData = Buffer

====
